---- MODULE Spec2Model ----
(***************************************************************************)
(* greni: an incremental build orchestrator (svelte -> rollup -> sorcery). *)
(* The repository holds three variants of the program:                     *)
(*   "lazy"      components are compiled on demand by the resolver         *)
(*   "declared"  components are listed in the configuration                *)
(*   "earliest"  as "declared", without exit status and validation         *)
(* The model runs a sequence of builds over one disk.                      *)
(***************************************************************************)
EXTENDS Integers, Sequences, FiniteSets, TLC

\* ------------------------------------------------------------------ bounds
MaxTime == 2
MaxRuns == 3
MaxConcurrentRuns == 1
MaxTouch == 1

Variants == {"lazy", "declared", "earliest"}
Modes == {"debug", "prod"}
Components == {"A", "B"}
Entries == {"e1", "e2"}
Times == 0..MaxTime
NoFile == -1

VARIABLES
    variant,        \* which variant of the program is installed
    helperImport,   \* component B imports the plain module ./util.js
    entryPoints,    \* the keys of config.entryPoints
    configShape,    \* the shape of the configuration file
    configEslint,   \* config.eslint
    configBuble,    \* config.buble is set
    shadowFile,     \* a module src/A.js lies next to the component src/A.html
    outputDirMade,  \* the directory config.output exists
    plugins,        \* the plugin list compileRollup hands to rollup
    mergeReported,  \* entries whose source-map merge failure was printed
    clock,          \* wall clock, the mtime given to a written file
    srcMtime,       \* component -> mtime of its .html source
    broken,         \* components whose source svelte.compile rejects
    artifacts,      \* path -> mtime of the regular files under the output tree
    links,          \* path -> target of the symbolic links under the output tree
    touches,        \* number of source edits so far
    touched,        \* components edited since the last build began
    runs,           \* number of builds started so far
    phase,          \* "idle" | "compile" | "bundle" | "done"
    debugMode,      \* config.debugMode of the current build
    prevMode,       \* build mode of the preceding build, "none" before it
    compIdx,        \* position of the declared-components loop
    componentPaths, \* config._componentPaths
    originLookup,   \* originLookup of rollupIncludePaths
    bundle,         \* entry -> state of its rollup promise
    sorcery,        \* entry -> state of its sorcery chain
    donePrinted,    \* 'Done!' was logged by the current build
    errorReported,  \* the catch handler of the build promise has run
    exitCode,       \* exit status of the last finished build, -1 while none
    compileCount,   \* component -> svelte.compile invocations of the current build
    processed,      \* component -> compile-stage visits of the current build
    compileErrored, \* components svelte.compile raised on during the current build
    stable,         \* components untouched since the preceding build began
    prevOk,         \* components the preceding build processed without error
    outputKey,      \* the 'output' key of the configuration file as written
    output,         \* config.output once the defaults are applied
    dirs0,          \* directory tree below the working directory before makeDirsSync
    dirs,           \* the directory tree: path -> "dir" | "file"
    readOnly,       \* directories in which nothing can be created
    mkPath,         \* the argument of makeDirsSync
    mkError,        \* "pending", "none" on a normal return, or the code raised
    linkAt,         \* what lies at outputPath: "absent", "file", "dir" or the
                    \* mode of the artifact a symbolic link there points to
    linkDenied,     \* the directory of outputPath refuses changes
    loopPc,         \* the link loop: "symlink" | "unlink" | "done" | "error"
    loopMode,       \* build mode of the process running the link loop
    attempts,       \* calls of fs.symlinkSync made by the loop
    rivals          \* other build processes at the same path: their loops

vars == <<variant, helperImport, clock, srcMtime, broken, artifacts, links,
          touches, touched, runs, phase, debugMode, prevMode, compIdx, componentPaths,
          originLookup, bundle, sorcery, donePrinted, errorReported, exitCode,
          compileCount, processed, compileErrored, stable, prevOk, entryPoints,
          configShape, configEslint, configBuble, shadowFile, outputDirMade,
          plugins, mergeReported, outputKey, output, dirs0, dirs, readOnly,
          mkPath, mkError, linkAt, linkDenied, loopPc, loopMode, attempts,
          rivals>>

\* ------------------------------------------------------------------- paths
\* A path is [dir, base, ext]: dir a sequence of segments ("/" first when
\* absolute), ext the sequence of dot-separated suffixes.
P(dir, base, ext) == [dir |-> dir, base |-> base, ext |-> ext]
Null == P(<<>>, "", <<>>)
Cwd == <<"/", "p">>
SrcDir == <<"/", "p", "src">>

RECURSIVE Norm(_, _)
Norm(segs, acc) ==
    IF segs = <<>> THEN acc
    ELSE LET h == Head(segs) t == Tail(segs) IN
         IF h = "." \/ (h = "/" /\ acc # <<>>) THEN Norm(t, acc)
         ELSE IF h = ".." /\ Len(acc) > 1 THEN Norm(t, SubSeq(acc, 1, Len(acc) - 1))
         ELSE IF h = ".." THEN Norm(t, acc)
         ELSE Norm(t, Append(acc, h))

resolveDir(segs) ==
    IF segs # <<>> /\ Head(segs) = "/" THEN Norm(segs, <<>>) ELSE Norm(Cwd \o segs, <<>>)
resolve(path) == P(resolveDir(path.dir), path.base, path.ext)
join(origin, file) == P(Norm(origin \o file.dir, <<>>), file.base, file.ext)
dirname(path) == path.dir

\* a test that takes every file with an extension for a component
isAnyModule(file) == file.ext # <<>>

\* /\.html$/.test(file)
isHtml(file) == file.ext # <<>> /\ file.ext[Len(file.ext)] = "html"
replaceHtml(path) ==
    IF isHtml(path)
    THEN P(path.dir, path.base, SubSeq(path.ext, 1, Len(path.ext) - 1) \o <<"js">>)
    ELSE path

Put(f, k, v) == [x \in DOMAIN f \cup {k} |-> IF x = k THEN v ELSE f[x]]
Empty == [x \in {} |-> 0]

\* ------------------------------------------------------------ the project
ComponentSource(c) == P(SrcDir, c, <<"html">>)
SrcFiles == {P(SrcDir, "e1", <<"js">>), P(SrcDir, "e2", <<"js">>),
             P(SrcDir, "util", <<"js">>)} \cup {ComponentSource(c) : c \in Components}
\* a plain module at the path a component is registered under
ShadowFiles == IF shadowFile THEN {P(SrcDir, "A", <<"js">>)} ELSE {}
\* require.resolve('svelte/shared.js'): the runtime every compiled component imports
SVELTE_PATH == P(Cwd \o <<"node_modules", "svelte">>, "shared", <<"js">>)
EntryPoint(e) == P(<<"src">>, e, <<"js">>)
ConfigOutput == <<".", "output">>
DeclaredComponents == <<P(<<"src">>, "A", <<"html">>), P(<<"src">>, "B", <<"html">>)>>
BuildMode == IF debugMode THEN "debug" ELSE "prod"

\* -------------------------------------------------------------- the disk
\* fs.statSync(path).mtime, following a symbolic link; NoFile for ENOENT
StatMtime(lnk, art, path) ==
    LET target == IF path \in DOMAIN lnk THEN lnk[path] ELSE path
    IN IF target \in DOMAIN art THEN art[target] ELSE NoFile

IsComponentSource(path) == path \in {ComponentSource(c) : c \in Components}

fileExists(path) ==
    IF \/ path \in SrcFiles \cup ShadowFiles \cup {SVELTE_PATH}
       \/ StatMtime(links, artifacts, path) # NoFile
    THEN path ELSE Null

\* ----------------------------------------------------- the compile stage
\* an output path that leaves the build mode out of account
computeComponentOutputPathOneMode(root, componentPath, debug) ==
    LET js == replaceHtml(componentPath)
    IN resolve(P(root \o <<"/">> \o js.dir, js.base, Append(js.ext, "prod")))

computeComponentOutputPath(root, componentPath, debug) ==
    LET js == replaceHtml(componentPath)
        buildMode == IF debug THEN "debug" ELSE "prod"
    IN resolve(P(root \o <<"/">> \o js.dir, js.base, Append(js.ext, buildMode)))

\* a comparison that also recompiles an artifact as old as its source
isFreshStrict(destMtime, srcM) == destMtime > srcM

\* destMtime >= srcMtime: the artifact is not older than the source
isFresh(destMtime, srcM) == destMtime >= srcM

\* svelte.compile raises on a source it cannot compile
svelteCompileThrows(c) == c \in broken

\* The part of compileSvelte after the output path is registered: stat both
\* files, return when fresh, otherwise compile and write `target`.
\* Yields the effect: what is returned or thrown and the disk afterwards.
statAndCompile(component, out, target, paths, lnk) ==
    LET src == resolve(component)
        c == src.base
        destStat == StatMtime(lnk, artifacts, out)
        destMtime == IF destStat = NoFile THEN 0 ELSE destStat
        base == [ret |-> out, threw |-> FALSE, paths |-> paths, lnk |-> lnk,
                 art |-> artifacts, invoked |-> {}, visited |-> {c}]
    IN IF ~IsComponentSource(src)
       THEN [base EXCEPT !.ret = Null, !.threw = TRUE, !.visited = {}]
       ELSE IF isFresh(destMtime, srcMtime[c]) THEN base
       ELSE IF svelteCompileThrows(c)
       THEN [base EXCEPT !.ret = Null, !.threw = TRUE, !.invoked = {c}]
       ELSE [base EXCEPT !.art = Put(artifacts, target, clock), !.invoked = {c}]

\* a registration that leaves the table as it was
registerNothing(paths, key, outputPath) == paths

\* a registration that replaces the table by the one entry
registerAlone(paths, key, outputPath) == Put(Empty, key, outputPath)

\* config._componentPaths[key] = outputPath
registerComponent(paths, key, outputPath) == Put(paths, key, outputPath)

\* compileSvelte(config, component) of the lazy variant
compileSvelte(component) ==
    LET outputPath == computeComponentOutputPath(ConfigOutput, component, debugMode)
        paths == registerComponent(componentPaths, resolve(replaceHtml(component)),
                                   outputPath)
    IN statAndCompile(component, outputPath, outputPath, paths, links)

\* a loop that takes a link that exists for the link it was to create
keepLink(lnk, outputPath, underlyingOutputPath) ==
    IF outputPath \in DOMAIN lnk THEN lnk
    ELSE Put(lnk, outputPath, underlyingOutputPath)

\* the while (true) loop around fs.symlinkSync and fs.unlinkSync, run alone:
\* the link is created, in place of the one that was there
replaceLink(lnk, outputPath, underlyingOutputPath) ==
    Put(lnk, outputPath, underlyingOutputPath)

\* one iteration of the loop of compileSvelte(config) of the declared variants:
\* the unsuffixed output path is a symbolic link to the artifact of the mode
compileDeclared(component) ==
    LET js == replaceHtml(component)
        outputPath == resolve(P(ConfigOutput \o <<"/">> \o js.dir, js.base, js.ext))
        underlyingOutputPath == P(outputPath.dir, outputPath.base,
                                  Append(outputPath.ext, BuildMode))
        paths == registerComponent(componentPaths, resolve(js), outputPath)
        lnk == replaceLink(links, outputPath, underlyingOutputPath)
    IN statAndCompile(component, outputPath, underlyingOutputPath, paths, lnk)

\* ------------------------------------------------------ the import graph
\* a component is imported as ./X.html where the resolver compiles on demand
\* and as ./X.js (the key of config._componentPaths) where it is declared
componentRef(c) == P(<<".">>, c, IF variant = "lazy" THEN <<"html">> ELSE <<"js">>)
utilRef == P(<<".">>, "util", <<"js">>)
\* 'svelte/shared.js', imported by every artifact compiled with shared: true
sharedRef == P(<<"svelte">>, "shared", <<"js">>)
Imports(id) ==
    CASE id.base = "e1" -> <<componentRef("A"), utilRef>>
      [] id.base = "e2" -> <<componentRef("A")>>
      [] id.base = "A"  -> <<componentRef("B"), sharedRef>>
      [] id.base = "B"  -> (IF helperImport THEN <<utilRef>> ELSE <<>>) \o <<sharedRef>>
      [] OTHER -> <<>>

\* ---------------------------------------------------------- the resolver
searchProjectModule(file) ==
    LET literal == fileExists(resolve(file))
    IN IF literal # Null THEN literal
       ELSE fileExists(P(resolveDir(file.dir \o <<file.base>>), "index", <<>>))

NoEffect(ret) == [ret |-> ret, threw |-> FALSE, paths |-> componentPaths, lnk |-> links,
                  art |-> artifacts, invoked |-> {}, visited |-> {},
                  origins |-> originLookup, candidate |-> Null]

\* the directory the import reference of a component is joined against
componentOrigin(originDir) ==
    IF originDir \in DOMAIN originLookup THEN originLookup[originDir] ELSE originDir

\* the directory the import reference of a plain module is joined against
moduleOrigin(originDir) == originDir

\* a lookup that prefers the file on disk to the registered artifact
lookupDiskFirst(path) ==
    IF fileExists(path) # Null THEN path
    ELSE IF path \in DOMAIN componentPaths THEN componentPaths[path]
    ELSE Null

\* the registered artifact of the joined path, else the joined path if on disk
lookupModule(path) ==
    IF path \in DOMAIN componentPaths THEN componentPaths[path] ELSE fileExists(path)

\* resolveId(file, origin) of rollupIncludePaths; origin = Null when undefined
resolveId(file, origin) ==
    IF origin = Null THEN NoEffect(searchProjectModule(file))
    ELSE IF variant = "lazy" /\ file = sharedRef THEN NoEffect(SVELTE_PATH)
    ELSE IF variant = "lazy" /\ isHtml(file)
    THEN LET dir == componentOrigin(dirname(origin))
             path == join(dir, file)
             r == compileSvelte(path)
         IN [ret |-> r.ret, threw |-> r.threw, paths |-> r.paths, lnk |-> r.lnk,
             art |-> r.art, invoked |-> r.invoked, visited |-> r.visited,
             origins |-> IF r.threw THEN originLookup
                         ELSE Put(originLookup, dirname(r.ret),
                                  Norm(dir \o dirname(file), <<>>)),
             candidate |-> path]
    ELSE LET path == join(moduleOrigin(dirname(origin)), file)
         IN [NoEffect(lookupModule(path)) EXCEPT !.candidate = path]

\* rollupNodeResolve(), asked when resolveId returns null: a bare module name
\* is looked up under node_modules, a relative one beside the issuing file
nodeResolve(file, origin) ==
    IF origin = Null THEN Null
    ELSE IF file.dir # <<>> /\ Head(file.dir) \notin {".", "..", "/"}
    THEN fileExists(P(Cwd \o <<"node_modules">> \o file.dir, file.base, file.ext))
    ELSE fileExists(join(dirname(origin), file))

\* ------------------------------------------------------------------ lint
Range(f) == {f[x] : x \in DOMAIN f}
IsSuffix(a, b) == Len(a) <= Len(b) /\ SubSeq(b, Len(b) - Len(a) + 1, Len(b)) = a
IsPrefix(a, b) == Len(a) <= Len(b) /\ SubSeq(b, 1, Len(a)) = a
\* id.indexOf(key) >= 0 on the path strings
Contains(id, key) ==
    /\ id.base = key.base
    /\ IsPrefix(key.ext, id.ext)
    /\ IsSuffix(Tail(key.dir), id.dir)

\* lintFilter of the lazy variant; the exclude list of the declared variant
\* ('node_modules/**' and the registered output paths); the earliest variant
\* passes no list and the plugin leaves out node_modules only
lintFilter(id) ==
    CASE variant = "lazy" ->
             /\ \A i \in 1..Len(id.dir) : id.dir[i] # "node_modules"
             /\ \A key \in Range(componentPaths) : ~Contains(id, key)
      [] variant = "declared" ->
             /\ ~IsPrefix(Cwd \o <<"node_modules">>, id.dir)
             /\ id \notin Range(componentPaths)
      [] OTHER -> \A i \in 1..Len(id.dir) : id.dir[i] # "node_modules"

Reports == {"clean", "warn", "error"}

\* a lint transform that raises on warnings as on errors
lintThrowsOnFinding(report) == report # "clean"

\* the lint transform raises: on errors (rollupEslint of the lazy variant), on
\* any finding (throwError of the declared variant), never (earliest variant)
lintThrows(report) ==
    CASE variant = "lazy" -> report = "error"
      [] variant = "declared" -> report # "clean"
      [] OTHER -> FALSE

\* ------------------------------------------------------- the plugin list
Push(list, present, plugin) == IF present THEN list \o plugin ELSE list
Resolvers == <<"includePaths", "nodeResolve">>

\* a list that minifies before it transpiles
compileRollupPluginsSwapped(eslintOn, bubleOn, debug) ==
    LET first == Push(<<>>, variant = "lazy", Resolvers)
        lint == Push(first, eslintOn, <<"eslint">>)
        min == Push(lint, ~debug, <<"uglify">>)
        trans == Push(min, bubleOn, <<"buble">>)
    IN Push(trans, variant # "lazy", Resolvers)

\* the plugins compileRollup pushes, in the order of the pushes
compileRollupPlugins(eslintOn, bubleOn, debug) ==
    LET first == Push(<<>>, variant = "lazy", Resolvers)
        lint == Push(first, eslintOn, <<"eslint">>)
        trans == Push(lint, bubleOn, <<"buble">>)
        min == Push(trans, ~debug, <<"uglify">>)
    IN Push(min, variant # "lazy", Resolvers)

\* ----------------------------------------------------- the configuration
\* "ok": entryPoints is a mapping and components (where the variant reads
\* it) a list; "componentsNotList": components is an object;
\* "entryPointsArray": entryPoints is the array of the entry files
ConfigShapes == {"ok", "componentsNotList", "entryPointsArray"}

\* the checks of build() (declared variant) and loadManifest() (lazy
\* variant, which has no components key); the earliest variant has none
configRejected ==
    CASE variant = "declared" -> configShape # "ok"
      [] variant = "lazy" -> configShape = "entryPointsArray"
      [] OTHER -> FALSE

\* for (const component of components) raises on a value that is not iterable
componentsNotIterable == variant # "lazy" /\ configShape = "componentsNotList"

\* ------------------------------------------------ the output directory
\* a string is a sequence of characters
MaxLen == 4
Chars == {"/", ".", "o"}
Strings == UNION {[1..n -> Chars] : n \in 0..MaxLen}

\* the value undefined, told apart from every string of characters
Undefined == <<"undefined">>
DefaultOutput == <<".", "/", "o", "u", "t", "p", "u", "t">>

\* s.replace(/\/+$/, '')
RECURSIVE stripTrailingSlashes(_)
stripTrailingSlashes(s) ==
    IF s # <<>> /\ s[Len(s)] = "/"
    THEN stripTrailingSlashes(SubSeq(s, 1, Len(s) - 1))
    ELSE s

\* if (config.output === undefined) { config.output = './output' }
\* config.output = config.output.replace(/\/+$/, '')
outputDefaults(key) ==
    stripTrailingSlashes(IF key = Undefined THEN DefaultOutput ELSE key)

\* ---------------------------------------------------------- the link loop
\* other build processes that replace the link of the same component
MaxRivals == 2
Rivals == 1..MaxRivals
\* the loop gives up no earlier than after one attempt more than it can need
MaxAttempts == MaxRivals + 3

\* an iteration that goes on to the next attempt with the link left in place
linkLoopNoUnlink(pc, at, mode, denied) ==
    IF at = "absent" /\ ~denied THEN [pc |-> "done", at |-> mode]
    ELSE IF at = "absent" THEN [pc |-> "error", at |-> at]
    ELSE [pc |-> "symlink", at |-> at]

\* one system call of the while (true) loop of compileSvelte(config):
\* fs.symlinkSync(underlyingOutputPath, outputPath) creates the link and
\* breaks, or raises EEXIST, or another error that is thrown on;
\* fs.unlinkSync(outputPath) removes what is there and continues, or raises
\* (nothing there any more, a directory, a refused change) out of the loop
linkLoop(pc, at, mode, denied) ==
    IF pc = "symlink"
    THEN IF at # "absent" THEN [pc |-> "unlink", at |-> at]
         ELSE IF denied THEN [pc |-> "error", at |-> at]
         ELSE [pc |-> "done", at |-> mode]
    ELSE IF at \in {"absent", "dir"} \/ denied THEN [pc |-> "error", at |-> at]
         ELSE [pc |-> "symlink", at |-> "absent"]

\* ------------------------------------------------------------- the state
NoBundle == [st |-> "none", toResolve |-> <<>>, toLoad |-> <<>>, loaded |-> {},
             lint |-> {}, cause |-> "none"]
Zero == [c \in Components |-> 0]

outputVars == <<outputKey, output>>
projectVars == <<variant, helperImport, entryPoints, configShape, configEslint,
                configBuble, shadowFile>>
treeVars == <<dirs0, dirs, readOnly, mkPath, mkError>>
loopVars == <<linkAt, linkDenied, loopPc, loopMode, attempts, rivals>>
envVars == <<projectVars, outputVars, treeVars, loopVars>>
srcVars == <<srcMtime, broken, touches, touched>>
diskVars == <<artifacts, links, outputDirMade>>
runVars == <<runs, debugMode, prevMode, stable, prevOk>>
tableVars == <<componentPaths, originLookup, compileCount, processed,
               compileErrored>>
endVars == <<donePrinted, errorReported, exitCode, mergeReported>>
buildVars == <<projectVars, clock, srcVars, diskVars, runVars, tableVars, endVars,
              phase, compIdx, bundle, sorcery, plugins>>

\* the import graph and the entry points vary under the default
\* configuration, the configuration keys over the project of one entry point
\* (the shape, the stage switches and the shadowed module one at a time)
ExploredConfiguration ==
    LET shape == configShape # "ok"
        stages == ~configEslint \/ configBuble
    IN \/ ~shape /\ ~stages /\ ~shadowFile
       \/ /\ ~helperImport /\ entryPoints = {"e1"}
          /\ ~(shape /\ stages) /\ ~(shape /\ shadowFile) /\ ~(stages /\ shadowFile)

\* the configurations the builds are run under
Configured ==
    /\ variant \in Variants
    /\ helperImport \in BOOLEAN
    /\ entryPoints \in {{"e1"}, Entries}
    /\ configShape \in IF variant = "lazy" THEN ConfigShapes \ {"componentsNotList"}
                                          ELSE ConfigShapes
    /\ configEslint \in BOOLEAN
    /\ configBuble \in BOOLEAN
    /\ shadowFile \in BOOLEAN
    /\ ExploredConfiguration

\* the project of one entry point under the default configuration
DefaultProject ==
    /\ variant \in Variants
    /\ helperImport = FALSE
    /\ entryPoints = {"e1"}
    /\ configShape = "ok"
    /\ configEslint = TRUE
    /\ configBuble = FALSE
    /\ shadowFile = FALSE

\* nothing was built yet
Fresh ==
    /\ clock = 1
    /\ outputDirMade = FALSE
    /\ plugins = <<>>
    /\ mergeReported = {}
    /\ srcMtime = [c \in Components |-> 1]
    /\ broken = {}
    /\ artifacts = Empty
    /\ links = Empty
    /\ touches = 0
    /\ touched = {}
    /\ runs = 0
    /\ phase = "idle"
    /\ debugMode = FALSE
    /\ prevMode = "none"
    /\ compIdx = 1
    /\ componentPaths = Empty
    /\ originLookup = Empty
    /\ bundle = [e \in Entries |-> NoBundle]
    /\ sorcery = [e \in Entries |-> "none"]
    /\ donePrinted = FALSE
    /\ errorReported = FALSE
    /\ exitCode = -1
    /\ compileCount = Zero
    /\ processed = Zero
    /\ compileErrored = {}
    /\ stable = {}
    /\ prevOk = {}

\* the configuration file leaves 'output' out: ConfigOutput is in force
OutputDefault ==
    /\ outputKey = Undefined
    /\ output = outputDefaults(Undefined)

\* no directory below the working directory, no call of makeDirsSync
NoTree ==
    /\ dirs0 = Empty
    /\ dirs = Empty
    /\ readOnly = {}
    /\ mkPath = <<>>
    /\ mkError = "none"

\* no link loop is running
NoLoop ==
    /\ linkAt = "absent"
    /\ linkDenied = FALSE
    /\ loopPc = "done"
    /\ loopMode = "prod"
    /\ attempts = 0
    /\ rivals = [r \in Rivals |-> [pc |-> "off", mode |-> "prod"]]

Init ==
    /\ Configured
    /\ Fresh
    /\ OutputDefault
    /\ NoTree
    /\ NoLoop

\* ------------------------------------------------------- the environment
Tick ==
    /\ phase = "idle"
    /\ runs > 0
    /\ clock < MaxTime
    /\ clock' = clock + 1
    /\ UNCHANGED <<envVars, srcVars, diskVars, runVars, tableVars, endVars,
                   phase, compIdx, bundle, sorcery, plugins>>

\* the developer edits a component between two builds
Touch(c, t, breaks) ==
    /\ phase = "idle"
    /\ touches < MaxTouch
    /\ touches' = touches + 1
    /\ touched' = touched \cup {c}
    /\ srcMtime' = [srcMtime EXCEPT ![c] = t]
    /\ broken' = IF breaks THEN broken \cup {c} ELSE broken \ {c}
    /\ UNCHANGED <<envVars, clock, diskVars, runVars, tableVars, endVars,
                   phase, compIdx, bundle, sorcery, plugins>>

\* ---------------------------------------------------------------- main
\* compileRollup starts one rollup promise per entry point
startedBundles ==
    [e \in Entries |->
        IF e \in entryPoints
        THEN [NoBundle EXCEPT !.st = "running",
                !.toResolve = <<[file |-> EntryPoint(e), origin |-> Null]>>]
        ELSE NoBundle]

\* sequences of builds are explored with one entry point, concurrent
\* bundles within MaxConcurrentRuns builds
RunLimit == IF Cardinality(entryPoints) = 1 THEN MaxRuns ELSE MaxConcurrentRuns

\* main(): load the configuration and call build(config). An error raised by
\* the checks of the configuration, or by the loop over a components value
\* that is not iterable (after build() made the output directory), is not
\* caught: exit status 1.
StartRun(mode) ==
    /\ phase = "idle"
    /\ runs < RunLimit
    /\ runs' = runs + 1
    /\ debugMode' = (mode = "debug")
    /\ prevMode' = IF runs = 0 THEN "none" ELSE BuildMode
    /\ stable' = IF runs = 0 THEN {} ELSE Components \ touched
    /\ prevOk' = {c \in Components : processed[c] > 0 /\ c \notin compileErrored}
    /\ touched' = {}
    /\ componentPaths' = Empty
    /\ originLookup' = Empty
    /\ compileCount' = Zero
    /\ processed' = Zero
    /\ compileErrored' = {}
    /\ sorcery' = [e \in Entries |-> "none"]
    /\ donePrinted' = FALSE
    /\ errorReported' = FALSE
    /\ mergeReported' = {}
    /\ compIdx' = 1
    /\ outputDirMade' = (outputDirMade \/ ~configRejected)
    /\ IF configRejected \/ componentsNotIterable
       THEN /\ phase' = "idle"
            /\ exitCode' = 1
            /\ bundle' = [e \in Entries |-> NoBundle]
            /\ plugins' = <<>>
       ELSE /\ exitCode' = -1
            /\ IF variant = "lazy"
               THEN /\ phase' = "bundle"
                    /\ bundle' = startedBundles
                    /\ plugins' = compileRollupPlugins(configEslint, configBuble,
                                                       mode = "debug")
               ELSE /\ phase' = "compile"
                    /\ bundle' = [e \in Entries |-> NoBundle]
                    /\ plugins' = <<>>
    /\ UNCHANGED <<envVars, clock, srcMtime, broken, touches, artifacts, links>>

\* the effect of a compile-stage visit on the table, the disk and the counters
ApplyCompile(r) ==
    /\ componentPaths' = r.paths
    /\ links' = r.lnk
    /\ artifacts' = r.art
    /\ compileCount' = [c \in Components |->
                          compileCount[c] + IF c \in r.invoked THEN 1 ELSE 0]
    /\ processed' = [c \in Components |->
                       processed[c] + IF c \in r.visited THEN 1 ELSE 0]
    /\ compileErrored' = compileErrored \cup (IF r.threw THEN r.invoked ELSE {})

\* one iteration of compileSvelte(config) of the declared variants; an error
\* is raised synchronously out of build() and main(): uncaught, exit status 1
CompileStep ==
    /\ phase = "compile"
    /\ compIdx <= Len(DeclaredComponents)
    /\ LET r == compileDeclared(DeclaredComponents[compIdx])
       IN /\ ApplyCompile(r)
          /\ IF r.threw
             THEN phase' = "idle" /\ exitCode' = 1 /\ compIdx' = compIdx
             ELSE phase' = phase /\ exitCode' = exitCode /\ compIdx' = compIdx + 1
    /\ UNCHANGED <<envVars, clock, srcVars, runVars, originLookup, outputDirMade,
                   donePrinted, errorReported, mergeReported, bundle, sorcery,
                   plugins>>

\* a chain that goes on after the first component
compileSvelteBegun == compIdx > 1

\* the loop over config.components has ended and compileSvelte has returned
\* its promise
compileSvelteReturned == compIdx > Len(DeclaredComponents)

\* .then(() => compileRollup(config)) of the declared variants
StartBundles ==
    /\ phase = "compile"
    /\ compileSvelteReturned
    /\ phase' = "bundle"
    /\ bundle' = startedBundles
    /\ plugins' = compileRollupPlugins(configEslint, configBuble, debugMode)
    /\ UNCHANGED <<envVars, clock, srcVars, diskVars, runVars, tableVars, endVars,
                   compIdx, sorcery>>

\* ------------------------------------------------------- the bundle stage
\* rollup calls resolveId for the entry point and for every import of a
\* loaded module, and the next resolver of the plugin list when it returns
\* null; a thrown error or an unresolved import rejects the bundle
ResolveStep(e) ==
    /\ phase = "bundle"
    /\ bundle[e].st = "running"
    /\ bundle[e].toLoad = <<>>
    /\ bundle[e].toResolve # <<>>
    /\ LET b == bundle[e]
           req == Head(b.toResolve)
           r == resolveId(req.file, req.origin)
           ret == IF r.ret = Null /\ ~r.threw THEN nodeResolve(req.file, req.origin)
                  ELSE r.ret
           failed(cause) == [b EXCEPT !.st = "failed", !.cause = cause,
                                      !.toResolve = <<>>, !.toLoad = <<>>]
       IN /\ ApplyCompile(r)
          /\ originLookup' = r.origins
          /\ bundle' = [bundle EXCEPT ![e] =
                 IF r.threw THEN failed("compile")
                 ELSE IF ret = Null THEN failed("resolve")
                 ELSE IF ret \in b.loaded THEN [b EXCEPT !.toResolve = Tail(@)]
                 ELSE [b EXCEPT !.toResolve = Tail(@), !.toLoad = <<ret>>,
                                !.loaded = @ \cup {ret}]]
    /\ UNCHANGED <<envVars, clock, srcVars, runVars, endVars, phase, compIdx, sorcery,
                   outputDirMade, plugins>>

\* rollup loads the resolved module (a missing file rejects the bundle), runs
\* the transform hook of the lint plugin on it and queues its imports
TransformStep(e, report) ==
    /\ phase = "bundle"
    /\ bundle[e].st = "running"
    /\ bundle[e].toLoad # <<>>
    /\ LET b == bundle[e]
           id == Head(b.toLoad)
       IN /\ \/ "eslint" \in Range(plugins) /\ fileExists(id) # Null /\ lintFilter(id)
             \/ report = "clean"
          /\ bundle' = [bundle EXCEPT ![e] =
                 IF fileExists(id) = Null
                 THEN [b EXCEPT !.st = "failed", !.cause = "load", !.toLoad = <<>>,
                                !.toResolve = <<>>]
                 ELSE IF lintThrows(report)
                 THEN [b EXCEPT !.st = "failed", !.cause = "lint", !.toLoad = <<>>,
                                !.toResolve = <<>>, !.lint = @ \cup {report}]
                 ELSE [b EXCEPT !.toLoad = Tail(@),
                                !.lint = @ \cup ({report} \ {"clean"}),
                                !.toResolve = @ \o [i \in 1..Len(Imports(id)) |->
                                    [file |-> Imports(id)[i], origin |-> id]]]]
    /\ UNCHANGED <<envVars, clock, srcVars, diskVars, runVars, tableVars, endVars,
                   phase, compIdx, sorcery, plugins>>

\* .then((bundle) => bundle.write(...))
WriteBundle(e) ==
    /\ phase = "bundle"
    /\ bundle[e].st = "running"
    /\ bundle[e].toLoad = <<>>
    /\ bundle[e].toResolve = <<>>
    /\ bundle' = [bundle EXCEPT ![e].st = "written"]
    /\ UNCHANGED <<envVars, clock, srcVars, diskVars, runVars, tableVars, endVars,
                   phase, compIdx, sorcery, plugins>>

\* Promise.all(promises) is fulfilled when every promise is, and rejected
\* as soon as one of them is
promiseAnyFulfilled == \E e \in entryPoints : bundle[e].st = "written"
promiseAllFulfilled == \A e \in entryPoints : bundle[e].st = "written"
promiseAllRejected == \E e \in entryPoints : bundle[e].st = "failed"

\* .then(() => compileSorcery(config)) and .then(() => console.log('Done!')):
\* compileSorcery starts the chains and returns a resolved promise
BuildResolved ==
    /\ phase = "bundle"
    /\ ~errorReported
    /\ promiseAllFulfilled
    /\ sorcery' = [e \in Entries |-> IF e \in entryPoints THEN "loading" ELSE "none"]
    /\ donePrinted' = TRUE
    /\ phase' = "done"
    /\ UNCHANGED <<envVars, clock, srcVars, diskVars, runVars, tableVars,
                   errorReported, exitCode, mergeReported, compIdx, bundle, plugins>>

\* a catch handler that only logs the error
exitsOnErrorNever == FALSE

\* the process exits in the catch handler, except in the earliest variant
exitsOnError == variant # "earliest"

\* .catch((error) => { console.error(error); process.exit(1) })
BuildRejected ==
    /\ phase = "bundle"
    /\ ~errorReported
    /\ promiseAllRejected
    /\ errorReported' = TRUE
    /\ IF exitsOnError
       THEN phase' = "idle" /\ exitCode' = 1
       ELSE phase' = phase /\ exitCode' = exitCode
    /\ UNCHANGED <<envVars, clock, srcVars, diskVars, runVars, tableVars,
                   donePrinted, mergeReported, compIdx, bundle, sorcery, plugins>>

\* what the runtime does with a rejected promise that has no handler: print
\* a warning, drop it, or print the error and end the process with status 1
RejectionPolicies == {"warn", "drop", "exit"}

\* sorcery.load(output).then((chain) => { chain.write() }): the chain has no
\* rejection handler, a failure of load or write is left to the runtime
SorceryStep(e, ok, policy) ==
    /\ phase = "done"
    /\ sorcery[e] = "loading"
    /\ ok => policy = "warn"
    /\ sorcery' = [sorcery EXCEPT ![e] = IF ok THEN "written" ELSE "failed"]
    /\ mergeReported' = IF ok \/ policy = "drop" THEN mergeReported
                        ELSE mergeReported \cup {e}
    /\ IF ~ok /\ policy = "exit"
       THEN phase' = "idle" /\ exitCode' = 1
       ELSE phase' = phase /\ exitCode' = exitCode
    /\ UNCHANGED <<envVars, clock, srcVars, diskVars, runVars, tableVars,
                   donePrinted, errorReported, compIdx, bundle, plugins>>

\* nothing is left pending: the process ends with status 0
ExitProcess ==
    /\ \/ phase = "done" /\ \A e \in Entries : sorcery[e] # "loading"
       \/ /\ phase = "bundle"
          /\ errorReported
          /\ \A e \in Entries : bundle[e].st # "running"
    /\ phase' = "idle"
    /\ exitCode' = 0
    /\ UNCHANGED <<envVars, clock, srcVars, diskVars, runVars, tableVars,
                   donePrinted, errorReported, mergeReported, compIdx, bundle, sorcery,
                   plugins>>

Next ==
    \/ Tick
    \/ \E c \in Components, t \in Times, breaks \in BOOLEAN : Touch(c, t, breaks)
    \/ \E mode \in Modes : StartRun(mode)
    \/ CompileStep
    \/ StartBundles
    \/ \E e \in Entries : ResolveStep(e)
    \/ \E e \in Entries, report \in Reports : TransformStep(e, report)
    \/ \E e \in Entries : WriteBundle(e)
    \/ BuildResolved
    \/ BuildRejected
    \/ \E e \in Entries, ok \in BOOLEAN, policy \in RejectionPolicies :
          SorceryStep(e, ok, policy)
    \/ ExitProcess

Spec == Init /\ [][Next]_vars

TypeOK ==
    /\ phase \in {"idle", "compile", "bundle", "done"}
    /\ clock \in 1..MaxTime
    /\ runs \in 0..MaxRuns

\* ------------------------------------- the defaults of the output directory
\* the configuration files: 'output' is left out or is any string
OutputInit ==
    /\ DefaultProject
    /\ Fresh
    /\ NoTree
    /\ NoLoop
    /\ outputKey \in Strings \cup {Undefined}
    /\ output = Undefined

\* the two statements on config.output of loadManifest (of build in the
\* declared variants)
LoadManifest ==
    /\ output = Undefined
    /\ output' = outputDefaults(outputKey)
    /\ UNCHANGED <<buildVars, treeVars, loopVars, outputKey>>

OutputNext == LoadManifest

OutputSpec == OutputInit /\ [][OutputNext]_vars

\* ---------------------------------------------------------- makeDirsSync
\* A directory path is a sequence of segments, "/" first.  The tree is a
\* chain of MaxDepth levels below the working directory, which exists.
MaxDepth == 3
Names == <<"output", "p", "src", "lib", "x">>
ChainPath(i) == Cwd \o SubSeq(Names, 1, i)

\* the levels 1..k are directories, with a regular file below them or not
TreeOf(k, file) ==
    [path \in {ChainPath(i) : i \in 1..(k + IF file THEN 1 ELSE 0)} |->
        IF Len(path) - Len(Cwd) <= k THEN "dir" ELSE "file"]
Trees == {TreeOf(k, FALSE) : k \in 0..MaxDepth}
             \cup {TreeOf(k, TRUE) : k \in 0..(MaxDepth - 1)}

\* what lies at an absolute path
Kind(tree, path) ==
    IF Len(path) <= Len(Cwd) THEN "dir"
    ELSE IF path \in DOMAIN tree THEN tree[path]
    ELSE "absent"

\* pathModule.dirname(path) of a directory path
dirnameDir(path) == IF Len(path) > 1 THEN SubSeq(path, 1, Len(path) - 1) ELSE path

\* the first proper ancestor of the path that is not a directory, 0 if none
RECURSIVE Blocked(_, _, _)
Blocked(tree, path, i) ==
    IF i >= Len(path) THEN 0
    ELSE IF Kind(tree, SubSeq(path, 1, i)) # "dir" THEN i
    ELSE Blocked(tree, path, i + 1)

\* fs.mkdirSync(path): the tree afterwards and the error code, "none" if made
mkdirSync(tree, path) ==
    LET b == Blocked(tree, path, 1)
        code == IF b > 0
                THEN IF Kind(tree, SubSeq(path, 1, b)) = "absent" THEN "ENOENT"
                                                                  ELSE "ENOTDIR"
                ELSE IF Kind(tree, path) # "absent" THEN "EEXIST"
                ELSE IF dirnameDir(path) \in readOnly THEN "EACCES"
                ELSE "none"
    IN [tree |-> IF code = "none" THEN Put(tree, path, "dir") ELSE tree,
        code |-> code]

\* a test that takes any file at the path for the directory
isPresent(tree, path) == Kind(tree, path) # "absent"

\* fs.statSync(path).isDirectory(), FALSE also when statSync throws
isDirectory(tree, path) == Kind(tree, path) = "dir"

\* makeDirsSync(path), the path resolved: the tree afterwards and the code of
\* the error raised, "none" on a normal return
RECURSIVE makeDirsResolved(_, _)
makeDirsResolved(tree, path) ==
    LET r == mkdirSync(tree, path) IN
    IF r.code = "none" THEN [tree |-> r.tree, error |-> "none"]
    ELSE IF r.code = "ENOENT"
    THEN LET up == makeDirsResolved(tree, dirnameDir(path))
         IN IF up.error # "none" THEN up ELSE makeDirsResolved(up.tree, path)
    ELSE IF isDirectory(tree, path) THEN [tree |-> tree, error |-> "none"]
    ELSE [tree |-> tree, error |-> r.code]

makeDirsSync(tree, path) == makeDirsResolved(tree, resolveDir(path))

\* a tree, a set of directories that refuse new entries, and a path of the
\* chain given absolute or relative to the working directory
TreeInit ==
    /\ DefaultProject
    /\ Fresh
    /\ OutputDefault
    /\ NoLoop
    /\ dirs0 \in Trees
    /\ dirs = dirs0
    /\ readOnly \in SUBSET {ChainPath(i) : i \in 0..(MaxDepth - 1)}
    /\ mkPath \in {ChainPath(i) : i \in 0..MaxDepth}
                    \cup {SubSeq(Names, 1, i) : i \in 1..MaxDepth}
    /\ mkError = "pending"

MakeDirs ==
    /\ mkError = "pending"
    /\ LET r == makeDirsSync(dirs, mkPath)
       IN dirs' = r.tree /\ mkError' = r.error
    /\ UNCHANGED <<buildVars, outputVars, loopVars, dirs0, readOnly, mkPath>>

TreeNext == MakeDirs

TreeSpec == TreeInit /\ [][TreeNext]_vars

\* -------------------------------------- the link loop among other builds
\* compileSvelte(config) has reached the loop for one component: anything may
\* lie at outputPath, no other build has reached its own loop yet
LoopInit ==
    /\ DefaultProject
    /\ variant # "lazy"
    /\ Fresh
    /\ OutputDefault
    /\ NoTree
    /\ linkAt \in {"absent", "file", "dir"} \cup Modes
    /\ linkDenied \in BOOLEAN
    /\ loopPc = "symlink"
    /\ loopMode \in Modes
    /\ attempts = 0
    /\ rivals = [r \in Rivals |-> [pc |-> "off", mode |-> "prod"]]

\* the next system call of the loop
LoopStep ==
    /\ loopPc \in {"symlink", "unlink"}
    /\ attempts < MaxAttempts
    /\ LET r == linkLoop(loopPc, linkAt, loopMode, linkDenied)
       IN loopPc' = r.pc /\ linkAt' = r.at
    /\ attempts' = attempts + IF loopPc = "symlink" THEN 1 ELSE 0
    /\ UNCHANGED <<buildVars, outputVars, treeVars, linkDenied, loopMode, rivals>>

\* another build process reaches the loop for the same component
RivalStart(r, mode) ==
    /\ loopPc \in {"symlink", "unlink"}
    /\ rivals[r].pc = "off"
    /\ rivals' = [rivals EXCEPT ![r] = [pc |-> "symlink", mode |-> mode]]
    /\ UNCHANGED <<buildVars, outputVars, treeVars, linkAt, linkDenied, loopPc,
                   loopMode, attempts>>

\* the next system call of its loop
RivalStep(r) ==
    /\ rivals[r].pc \in {"symlink", "unlink"}
    /\ LET n == linkLoop(rivals[r].pc, linkAt, rivals[r].mode, linkDenied)
       IN /\ rivals' = [rivals EXCEPT ![r].pc = n.pc]
          /\ linkAt' = n.at
    /\ UNCHANGED <<buildVars, outputVars, treeVars, linkDenied, loopPc, loopMode,
                   attempts>>

LoopNext ==
    \/ LoopStep
    \/ \E r \in Rivals, mode \in Modes : RivalStart(r, mode)
    \/ \E r \in Rivals : RivalStep(r)

\* the process runs its synchronous loop on: its next system call is made
LoopSpec == LoopInit /\ [][LoopNext]_vars /\ WF_vars(LoopStep)

\* ------------------------------------------------------------- properties
\* the artifact file of component c in the build mode m
ArtifactPath(c, m) ==
    IF variant = "lazy"
    THEN computeComponentOutputPath(ConfigOutput, ComponentSource(c), m = "debug")
    ELSE P(resolveDir(ConfigOutput \o <<"/", "src">>), c, <<"js", m>>)

\* the mtime compileSvelte compares with the source's: 0 without an artifact
DestMtime(c) ==
    IF ArtifactPath(c, BuildMode) \in DOMAIN artifacts
    THEN artifacts[ArtifactPath(c, BuildMode)] ELSE 0

Visit(c) == processed'[c] = processed[c] + 1
Invoke(c) == compileCount'[c] = compileCount[c] + 1
Toggled == runs >= 2 /\ prevMode # BuildMode

\* C1: a second build in the same mode, with the component's source untouched
\* since the first build (which processed the component without error),
\* never invokes svelte.compile for that component.
C1_Idempotent ==
    \A c \in Components :
        (runs >= 2 /\ prevMode = BuildMode /\ c \in stable /\ c \in prevOk)
            => compileCount[c] = 0

\* C2 as claimed: in a build whose mode differs from the preceding build's,
\* a processed component has been recompiled even when the artifact of the
\* new mode is on disk.
C2_ToggleAlwaysRecompiles ==
    \A c \in Components :
        (Toggled /\ processed[c] > 0 /\ ArtifactPath(c, BuildMode) \in DOMAIN artifacts)
            => compileCount[c] > 0

\* C2 as amended: in a build whose mode differs from the preceding build's,
\* a visit of the compile stage invokes svelte.compile exactly when the
\* artifact of the new mode is older than the source (a missing artifact
\* counting as time 0); a new-mode artifact that is not older is reused.
C2_ToggleRecompilesStale ==
    [][\A c \in Components :
          (Toggled /\ Visit(c)) => (Invoke(c) <=> DestMtime(c) < srcMtime[c])]_vars

\* a build after a mode change reuses the artifact an earlier build left
C2_Witness ==
    \E c \in Components :
        /\ Toggled
        /\ processed[c] > 0
        /\ compileCount[c] = 0
        /\ ArtifactPath(c, BuildMode) \in DOMAIN artifacts

\* C3: a visit of the compile stage to a component whose artifact of the
\* current mode is missing or strictly older than the source invokes
\* svelte.compile and (the compiler returning) rewrites the artifact.
C3_StaleIsRecompiled ==
    [][\A c \in Components :
          (/\ Visit(c)
           /\ \/ ArtifactPath(c, BuildMode) \notin DOMAIN artifacts
              \/ artifacts[ArtifactPath(c, BuildMode)] < srcMtime[c])
          => /\ Invoke(c)
             /\ c \notin broken =>
                  /\ ArtifactPath(c, BuildMode) \in DOMAIN artifacts'
                  /\ artifacts'[ArtifactPath(c, BuildMode)] = clock]_vars

\* C4: in the first build over an empty output tree (no artifact, which the
\* compile stage takes as stale for a source mtime after the epoch), once
\* both concurrent bundles have resolved their import of component A (whose
\* source compiles), svelte.compile has been invoked exactly once for A.
C4_CompiledOnce ==
    (/\ variant = "lazy"
     /\ runs = 1
     /\ entryPoints = Entries
     /\ "A" \notin broken
     /\ srcMtime["A"] > 0
     /\ \A e \in Entries : ArtifactPath("A", BuildMode) \in bundle[e].loaded)
        => compileCount["A"] = 1

\* C5: a resolver call issued from a compiled artifact (the directory of
\* the issuing file is a key of originLookup) joins a relative import
\* reference against the original source directory, whatever its kind.
C5_OriginTracking ==
    \A e \in Entries :
        (/\ phase = "bundle"
         /\ bundle[e].st = "running"
         /\ bundle[e].toLoad = <<>>
         /\ bundle[e].toResolve # <<>>
         /\ Head(bundle[e].toResolve).origin # Null
         /\ Head(Head(bundle[e].toResolve).file.dir) = "."
         /\ dirname(Head(bundle[e].toResolve).origin) \in DOMAIN originLookup)
        => LET req == Head(bundle[e].toResolve)
           IN resolveId(req.file, req.origin).candidate
                  = join(originLookup[dirname(req.origin)], req.file)

\* C6: the failure of the build is reported only when no bundle of
\* another entry point is still in progress.
C6_FailTogether ==
    errorReported => \A e \in entryPoints : bundle[e].st # "running"

\* C7: the source-map merge of an entry point has started only if the
\* bundle of that entry point has been written.
C7_MergeAfterBundle ==
    \A e \in Entries : sorcery[e] # "none" => bundle[e].st = "written"

\* two entry points, both merges started
C7_Witness ==
    entryPoints = Entries /\ \A e \in Entries : sorcery[e] = "loading"

C9_CompileErrorFatal ==
    compileErrored # {} =>
        /\ ~donePrinted
        /\ \A e \in Entries : sorcery[e] = "none"
        /\ phase = "idle" => exitCode = 1
        /\ variant # "lazy" => phase = "idle"
        /\ \A c \in compileErrored :
              compileCount[c] <= IF variant = "lazy"
                                 THEN Cardinality({e \in Entries : bundle[e].cause = "compile"})
                                 ELSE 1

\* the build of the lazy variant has ended on a compile error
C9_Witness ==
    variant = "lazy" /\ compileErrored # {} /\ phase = "idle" /\ exitCode = 1

StageFailed ==
    compileErrored # {} \/ \E e \in Entries : bundle[e].st = "failed"

\* C10: when the process of a build that entered its stages has ended,
\* 'Done!' was printed iff no compile or bundle stage failed, and a failed
\* stage gives a non-zero exit status.
C10_ExitBehaviour ==
    (phase = "idle" /\ runs > 0 /\ ~configRejected /\ ~componentsNotIterable) =>
        /\ donePrinted <=> ~StageFailed
        /\ StageFailed => exitCode # 0 /\ ~donePrinted

\* the transform stages in the order the pipeline fixes
OrderedStages ==
    (IF configEslint THEN <<"eslint">> ELSE <<>>)
        \o (IF configBuble THEN <<"buble">> ELSE <<>>)
        \o (IF debugMode THEN <<>> ELSE <<"uglify">>)
IsResolver(plugin) == plugin \in Range(Resolvers)
IsStage(plugin) == ~IsResolver(plugin)

\* C11 as claimed: the plugin list handed to rollup is module resolution,
\* then lint if enabled, then transpile if configured, then minify unless
\* in debug mode.
C11_ResolutionFirst ==
    plugins # <<>> => plugins = Resolvers \o OrderedStages

\* C11 as amended: the transform stages of the list are lint if enabled,
\* transpile if configured, minify unless in debug mode, in this order; the
\* two module-resolution plugins stand together, first where components are
\* compiled on demand and last where they are declared.
C11_StageOrder ==
    plugins # <<>> =>
        /\ SelectSeq(plugins, IsStage) = OrderedStages
        /\ SelectSeq(plugins, IsResolver) = Resolvers
        /\ IF variant = "lazy"
           THEN SubSeq(plugins, 1, 2) = Resolvers
           ELSE SubSeq(plugins, Len(plugins) - 1, Len(plugins)) = Resolvers

\* every stage present, module resolution pushed last
C11_Witness ==
    /\ phase = "bundle"
    /\ plugins = <<"eslint", "buble", "uglify", "includePaths", "nodeResolve">>

\* <output>/<component path relative to the project root>, .html replaced
\* by .js, suffixed by the mode
RelativeArtifactPath(c, m) ==
    P(resolveDir(ConfigOutput) \o <<"src">>, c, <<"js", m>>)

\* C12: every compiled artifact on disk lies at the output directory joined
\* with the component's path relative to the project root, with .html
\* replaced by .js and the build mode as suffix.
C12_ArtifactLocation ==
    \A path \in DOMAIN artifacts :
        \E c \in Components, m \in Modes : path = RelativeArtifactPath(c, m)

ModeOf(path) == path.ext[Len(path.ext)]

\* C13: a step of a build in mode m creates or rewrites only artifacts with
\* the suffix m; every artifact of the other mode stays on disk with the
\* modification time it had.
C13_ModeSeparation ==
    [][\A path \in DOMAIN artifacts \cup DOMAIN artifacts' :
          ModeOf(path) # BuildMode =>
              /\ path \in DOMAIN artifacts
              /\ path \in DOMAIN artifacts'
              /\ artifacts'[path] = artifacts[path]]_vars

\* a build has compiled a component whose artifact of the other mode is on disk
C13_Witness ==
    \E c \in Components, m \in Modes :
        /\ m # BuildMode
        /\ compileCount[c] > 0
        /\ c \notin compileErrored
        /\ ArtifactPath(c, m) \in DOMAIN artifacts
        /\ ArtifactPath(c, BuildMode) \in DOMAIN artifacts

\* C14: a build whose configuration has a components value that is not a
\* list or an entryPoints value that is not a mapping ends in an error
\* before any write to the disk, compile, bundle or source-map merge.
C14_ConfigErrorAborts ==
    (configShape # "ok" /\ runs > 0) =>
        /\ phase = "idle"
        /\ exitCode = 1
        /\ ~outputDirMade
        /\ artifacts = Empty
        /\ links = Empty
        /\ processed = Zero
        /\ compileCount = Zero
        /\ \A e \in Entries : bundle[e].st = "none" /\ sorcery[e] = "none"

\* C15: a source-map merge that fails leaves the build a success ('Done!'
\* printed, no failure status) and the failure is printed, not dropped.
C15_MergeFailureReported ==
    \A e \in Entries :
        sorcery[e] = "failed" =>
            /\ donePrinted
            /\ e \in mergeReported
            /\ exitCode # 1

\* the lint transform has produced a finding for the module being loaded
Linted(e) ==
    /\ phase = "bundle"
    /\ bundle[e].toLoad # <<>>
    /\ bundle'[e].lint # bundle[e].lint
UnderNodeModules(id) == \E i \in 1..Len(id.dir) : id.dir[i] = "node_modules"

\* C16: the lint check is never run on a module whose id is a compiled
\* path registered in config._componentPaths, nor on a module under a
\* node_modules directory.
C16_LintExclusion ==
    [][\A e \in Entries :
          Linted(e) =>
              /\ Head(bundle[e].toLoad) \notin Range(componentPaths)
              /\ ~UnderNodeModules(Head(bundle[e].toLoad))]_vars

\* the resolver is about to be called for entry e
ResolverPending(e) ==
    /\ phase = "bundle"
    /\ bundle[e].st = "running"
    /\ bundle[e].toLoad = <<>>
    /\ bundle[e].toResolve # <<>>
\* ... with an issuing file
ResolverCalled(e) == ResolverPending(e) /\ Head(bundle[e].toResolve).origin # Null
NonComponent(file) == file.ext = <<>> \/ file.ext[Len(file.ext)] # "html"
OnDisk(path) == fileExists(path) # Null

\* the precedence of the table over the disk at the joined path
Precedence(req) ==
    LET path == join(dirname(req.origin), req.file)
    IN resolveId(req.file, req.origin).ret =
          IF path \in DOMAIN componentPaths THEN componentPaths[path]
          ELSE IF OnDisk(path) THEN path ELSE Null

\* C17 as claimed: for an import that is not a component reference and has
\* an issuing file the resolver returns the compiled path registered for
\* the joined path, else the joined path if it is on disk, else null.
C17_ResolverPrecedence ==
    \A e \in Entries :
        (ResolverCalled(e) /\ NonComponent(Head(bundle[e].toResolve).file))
            => Precedence(Head(bundle[e].toResolve))

\* C17 as amended: where components are compiled on demand the reference
\* 'svelte/shared.js' resolves to the installed runtime; for every other
\* reference that is not a component reference the table has precedence
\* over the disk at the joined path, and null is returned when neither has it.
C17_PrecedenceBesidesRuntime ==
    \A e \in Entries :
        (ResolverCalled(e) /\ NonComponent(Head(bundle[e].toResolve).file)) =>
            LET req == Head(bundle[e].toResolve)
            IN IF variant = "lazy" /\ req.file = sharedRef
               THEN resolveId(req.file, req.origin).ret = SVELTE_PATH
               ELSE Precedence(req)

\* the joined path is registered and a file lies there as well
C17_Witness ==
    \E e \in Entries :
        /\ ResolverCalled(e)
        /\ LET req == Head(bundle[e].toResolve)
               path == join(dirname(req.origin), req.file)
           IN /\ NonComponent(req.file)
              /\ path \in DOMAIN componentPaths
              /\ OnDisk(path)
              /\ resolveId(req.file, req.origin).ret = componentPaths[path]

\* the file a stat of the path reaches
StatTarget(path) == IF path \in DOMAIN links THEN links[path] ELSE path
ComponentKey(c) == P(SrcDir, c, <<"js">>)

\* C18: once the compile stage has processed a component without error,
\* config._componentPaths maps the component's absolute source path, .html
\* replaced by .js, to the output path of its artifact of the current mode
\* (in the declared variants through the link at the unsuffixed path),
\* whether svelte.compile was invoked or skipped.
C18_Registered ==
    \A c \in Components :
        (processed[c] > 0 /\ c \notin compileErrored) =>
            /\ ComponentKey(c) \in DOMAIN componentPaths
            /\ StatTarget(componentPaths[ComponentKey(c)]) = ArtifactPath(c, BuildMode)

\* one component was compiled and another skipped as fresh
C18_Witness ==
    /\ processed["A"] > 0 /\ compileCount["A"] = 0
    /\ processed["B"] > 0 /\ compileCount["B"] > 0 /\ "B" \notin compileErrored
    /\ ArtifactPath("A", BuildMode) \in DOMAIN artifacts

\* C19: within a build a key of config._componentPaths stays a key and
\* keeps the compiled path it maps to.
C19_TableMonotonic ==
    [][runs' = runs =>
          \A key \in DOMAIN componentPaths :
              /\ key \in DOMAIN componentPaths'
              /\ componentPaths'[key] = componentPaths[key]]_vars

\* a component was registered again with another component in the table
C19_Witness ==
    /\ Cardinality(DOMAIN componentPaths) = 2
    /\ \E c \in Components : processed[c] >= 2

\* C20: a resolver call for a reference that is not a component
\* reference changes neither config._componentPaths nor originLookup, nor
\* the number of svelte.compile invocations, nor any file on disk.
C20_ResolverFrame ==
    [][\A e \in Entries :
          (/\ ResolverPending(e)
           /\ NonComponent(Head(bundle[e].toResolve).file)
           /\ bundle'[e] # bundle[e])
          => UNCHANGED <<componentPaths, originLookup, compileCount, artifacts, links>>]_vars

\* the plain module of e1 was resolved after a component was registered
C20_Witness ==
    /\ variant = "lazy"
    /\ P(SrcDir, "util", <<"js">>) \in bundle["e1"].loaded
    /\ DOMAIN componentPaths # {}
    /\ DOMAIN originLookup # {}

\* C21: once the defaults are applied, config.output is never the empty string
\* and never ends in a slash, whatever non-empty string the configuration gives
\* (a string of slashes included), and it is './output' when the key is left out
C21_OutputNormalized ==
    (output # Undefined /\ outputKey # <<>>) =>
        /\ output # <<>>
        /\ output[Len(output)] # "/"
        /\ outputKey = Undefined => output = DefaultOutput

\* C22: in a build of the declared variants, once the bundle of any entry point
\* has started every declared component was visited by the compile stage
\* (registered in config._componentPaths, compiled or skipped), and once any
\* source-map merge has started the bundle of every entry point is written.
C22_PhaseOrder ==
    variant # "lazy" =>
        /\ (\E e \in Entries : bundle[e].st # "none") =>
               \A i \in 1..Len(DeclaredComponents) :
                  LET c == DeclaredComponents[i].base
                  IN /\ processed[c] > 0
                     /\ c \notin compileErrored
                     /\ ComponentKey(c) \in DOMAIN componentPaths
        /\ (\E e \in Entries : sorcery[e] # "none") =>
               \A e \in entryPoints : bundle[e].st = "written"

\* both merges of a project of two entry points have started after both
\* components were compiled
C22_Witness ==
    /\ variant = "declared"
    /\ entryPoints = Entries
    /\ \A e \in Entries : sorcery[e] # "none"
    /\ \A c \in Components : compileCount[c] > 0

\* the levels of the resolved path below the working directory
Levels(path) == {SubSeq(path, 1, i) : i \in (Len(Cwd) + 1)..Len(path)}

\* C23: when makeDirsSync returns normally the path and all its ancestors are
\* directories and nothing that existed was changed; a path that is a
\* directory already is tolerated without a change; when the path or an
\* ancestor is a regular file, or a directory refuses the new entry, the
\* error code of the failed fs.mkdirSync is raised.
C23_EnsureDirectory ==
    mkError # "pending" =>
        LET path == resolveDir(mkPath)
            files == {l \in Levels(path) : Kind(dirs0, l) = "file"}
            missing == {l \in Levels(path) : Kind(dirs0, l) = "absent"}
        IN /\ mkError = "none" =>
                /\ \A l \in Levels(path) : Kind(dirs, l) = "dir"
                /\ \A l \in DOMAIN dirs0 : l \in DOMAIN dirs /\ dirs[l] = dirs0[l]
                /\ DOMAIN dirs = DOMAIN dirs0 \cup missing
           /\ Kind(dirs0, path) = "dir" => mkError = "none" /\ dirs = dirs0
           /\ files # {} =>
                mkError = IF path \in files THEN "EEXIST" ELSE "ENOTDIR"
           /\ (files = {} /\ \E l \in missing : dirnameDir(l) \in readOnly) =>
                mkError = "EACCES"
           /\ (files = {} /\ \A l \in missing : dirnameDir(l) \notin readOnly) =>
                mkError = "none"

\* a relative path was resolved and two missing ancestors were created with it
C23_Witness ==
    /\ mkError = "none"
    /\ Head(mkPath) # "/"
    /\ Cardinality(DOMAIN dirs) >= Cardinality(DOMAIN dirs0) + 3

\* a regular file at the path made makeDirsSync raise EEXIST
C23_WitnessFile ==
    /\ mkError = "EEXIST"
    /\ Kind(dirs0, resolveDir(mkPath)) = "file"

\* C24: whenever 'Done!' has been printed by the current build, the source-map
\* merge of every entry point has finished writing its flattened map.
C24_DoneImpliesMerged ==
    donePrinted => \A e \in entryPoints : sorcery[e] = "written"

\* C25: while the bundler runs, the compiled path the compile stage or the
\* resolver returned for a component names an artifact file that exists, has
\* the suffix of the current build mode and a modification time not earlier
\* than the component's source, whatever the source's modification time is.
C25_CacheValidAtUse ==
    phase \in {"bundle", "done"} =>
        \A c \in Components :
            (/\ processed[c] > 0
             /\ c \notin compileErrored
             /\ ComponentKey(c) \in DOMAIN componentPaths) =>
                LET path == StatTarget(componentPaths[ComponentKey(c)])
                IN /\ path \in DOMAIN artifacts
                   /\ ModeOf(path) = BuildMode
                   /\ artifacts[path] >= srcMtime[c]

\* C26: in the declared variants, once the compile stage of a build in mode m
\* has visited a component, the unsuffixed output path registered for it in
\* config._componentPaths is a symbolic link to the component's artifact of
\* mode m, whatever the mode of the builds before; a compiled module the
\* bundler has loaded is never the artifact of the other mode.
C26_ModeSwitchingLink ==
    variant # "lazy" =>
        /\ \A c \in Components :
              processed[c] > 0 =>
                  /\ ComponentKey(c) \in DOMAIN componentPaths
                  /\ componentPaths[ComponentKey(c)] \in DOMAIN links
                  /\ componentPaths[ComponentKey(c)].ext = <<"js">>
                  /\ links[componentPaths[ComponentKey(c)]] = ArtifactPath(c, BuildMode)
        /\ \A e \in Entries : \A id \in bundle[e].loaded :
              id \in DOMAIN links => ModeOf(links[id]) = BuildMode

\* a build in the other mode than the preceding one: the artifact of the
\* preceding mode is on disk and the bundler has loaded the component through
\* the link to the artifact of the current mode
C26_Witness ==
    /\ variant = "declared"
    /\ prevMode \in Modes \ {BuildMode}
    /\ ArtifactPath("A", prevMode) \in DOMAIN artifacts
    /\ ArtifactPath("A", BuildMode) \in DOMAIN artifacts
    /\ \E e \in Entries : \E id \in bundle[e].loaded :
          id \in DOMAIN links /\ links[id] = ArtifactPath("A", BuildMode)

\* no other build process has reached its loop
Quiet == \A r \in Rivals : rivals[r].pc = "off"

\* C27: the link loop finishes for a component, with the link created or with
\* an error raised: left alone it makes at most two calls of fs.symlinkSync
\* and a loop that ends normally has created the link of its mode; while
\* other build processes replace the same link it finishes eventually, given
\* that the process goes on running.
C27_LoopTerminates ==
    /\ [](Quiet => attempts <= 2 /\ (loopPc = "done" => linkAt = loopMode))
    /\ [](attempts < MaxAttempts)
    /\ <>(loopPc \in {"done", "error"})

\* the loop found a link, removed it, lost the path to another build twice
\* and created its link at the fourth attempt
C27_Witness ==
    /\ loopPc = "done"
    /\ attempts = MaxRivals + 2
    /\ \A r \in Rivals : rivals[r].pc = "done"

\* left alone, the loop replaced the link of the other mode at the second
\* attempt
C27_WitnessQuiet ==
    /\ Quiet
    /\ loopPc = "done"
    /\ attempts = 2
    /\ linkAt = loopMode

====
